---------------------------- MODULE Spec2Model ----------------------------
(***************************************************************************)
(* The HTTP backend of src/index.js: user registration, product CRUD and   *)
(* the two-phase checkout (purchase / confirm-payment) over a document     *)
(* store and a payment gateway.                                            *)
(*                                                                         *)
(* A handler runs without interruption between two awaits, so every store  *)
(* or gateway call is one step: the call itself, together with the         *)
(* synchronous code of the handler that precedes it (from the previous     *)
(* await, or from the arrival of the request) and with the code that       *)
(* follows it up to the next await or the response.  A handler that is     *)
(* suspended at an await is a record of the bag inflight, holding the      *)
(* handler's local variables.                                              *)
(*                                                                         *)
(* A product document carries name, price, stock and status; description   *)
(* and imageURL are passed through exactly as name is and are left out.    *)
(* Prices are whole numbers, on which parseFloat is the identity.          *)
(***************************************************************************)
EXTENDS Integers, Sequences, FiniteSets, Bags, TLC

\* ------------------------------------------------------------------ bounds
\* Requests accepted in one run of the server.
MaxReq == 2
\* Largest stock of a product at creation or update.
MaxStock == 2
\* Largest quantity a checkout request asks for.
MaxQty == 2

\* --------------------------------------------------------------- constants
\* jwt.sign(..., { expiresIn: "7d" }): one token lifetime, the unit of the clock.
ExpiresIn == 1
\* amount = product.price * quantity * 100
CentsPerUnit == 100

secretKey == "default_secret"

Emails == {"a@x", "b@x"}
Names == {"n"}
Prices == {10}

\* ------------------------------------------------------------------ values
\* A request's :id parameter: wf says whether new ObjectId(id) accepts it.
IdParams(n) == [wf : {TRUE}, n : 1..n] \cup {[wf |-> FALSE, n |-> 0]}

Digits == <<"0", "1", "2", "3", "4", "5", "6", "7", "8", "9">>

DigitVal(c) == (CHOOSE i \in 1..10 : Digits[i] = c) - 1

IsDigit(c) == \E i \in 1..10 : Digits[i] = c

\* The decimal string of a natural number, as a sequence of characters.
RECURSIVE DecString(_)
DecString(n) == IF n < 10 THEN <<Digits[n + 1]>>
                ELSE DecString(n \div 10) \o <<Digits[(n % 10) + 1]>>

\* The value of the longest prefix of s made of digits, after acc.
RECURSIVE ParseDigits(_, _)
ParseDigits(s, acc) ==
    IF s = <<>> \/ ~IsDigit(Head(s)) THEN acc
    ELSE ParseDigits(Tail(s), 10 * acc + DigitVal(Head(s)))

\* parseInt on a string of decimal digits.
ParseInt(s) == ParseDigits(s, 0)

\* The stock strings a client sends when creating or updating a product.
StockInputs == {DecString(n) : n \in 0..MaxStock}

Quantities == 1..MaxQty

\* The instants at which a request reads the clock, in token lifetimes.
Times == 0..ExpiresIn

\* A token: wf says whether it parses as a JWT; key is the key that signed it.
Tokens == [wf : BOOLEAN, email : {"a@x", ""}, exp : {ExpiresIn},
           key : {secretKey, "other_secret"}]

\* The Authorization header: set says whether the request has one; parts are
\* the words that follow the first one once the header is split at spaces.
Headers == {[set |-> FALSE, parts |-> <<>>], [set |-> TRUE, parts |-> <<>>]}
           \cup {[set |-> TRUE, parts |-> <<t>>] : t \in Tokens}

NoStatus == ""

VARIABLES
    users,      \* userCollection: the documents, in insertion order
    products,   \* productCollection: _id -> document
    nextId,     \* the next _id insertOne generates for a product
    intents,    \* the gateway's payment intents, by id
    inflight,   \* the handlers suspended at an await, with their locals
    last,       \* the latest response sent (code 0: none was sent)
    started,    \* requests accepted so far
    audit       \* history of each product document's writes

vars == <<users, products, nextId, intents, inflight, last, started, audit>>

\* ------------------------------------------------------------ token service
CreateToken(user, t) ==
    [wf |-> TRUE, email |-> user.email, exp |-> t + ExpiresIn, key |-> secretKey]

\* jwt.verify(token, secretKey): throws unless the token parses, carries a
\* signature made with secretKey and is not expired.
JwtVerify(token, t) ==
    IF token.wf /\ token.key = secretKey /\ t < token.exp
    THEN [ok |-> TRUE, email |-> token.email]
    ELSE [ok |-> FALSE, email |-> ""]

\* verifyToken as it would be if the expiry of the token were not looked at.
VerifyTokenNoExpiry(hdr, t) ==
    /\ hdr.set
    /\ Len(hdr.parts) >= 1
    /\ hdr.parts[1].wf /\ hdr.parts[1].key = secretKey
    /\ hdr.parts[1].email # ""

\* verifyToken: TRUE when it calls next(), FALSE when it answers 401.
VerifyToken(hdr, t) ==
    IF ~hdr.set THEN FALSE                     \* undefined.split throws
    ELSE IF Len(hdr.parts) < 1 THEN FALSE      \* jwt.verify(undefined) throws
    ELSE LET verify == JwtVerify(hdr.parts[1], t)
         IN  verify.ok /\ verify.email # ""

\* ---------------------------------------------------------------- helpers
Resp(route, code, msg) ==
    [route |-> route, code |-> code, msg |-> msg, secret |-> 0, token |-> <<>>]

\* An async handler without try/catch whose promise rejects: no response is sent.
Rejected(route) == Resp(route, 0, "unhandled rejection")

Add(bag, r) == bag (+) SetToBag({r})

Remove(bag, r) == bag (-) SetToBag({r})

InFlight == BagToSet(inflight)

Accept == started < MaxReq /\ started' = started + 1

\* The first document of userCollection matching {email}, as a set of indices.
FindUser(email) ==
    IF \E i \in 1..Len(users) : users[i].email = email
    THEN {CHOOSE i \in 1..Len(users) :
            /\ users[i].email = email
            /\ \A j \in 1..(i - 1) : users[j].email # email}
    ELSE {}

\* The record of a document's writes kept beside a freshly written document.
Fresh(v, stock) ==
    [v |-> v, lv |-> 0, ls |-> 0, q |-> 0, pq |-> 0, base |-> stock, dec |-> 0,
     clean |-> TRUE]

Init ==
    /\ users = <<>>
    /\ \E s \in 0..MaxStock :
         /\ products = (1 :> [name |-> "n", price |-> 10, stock |-> s, status |-> NoStatus])
         /\ audit = (1 :> Fresh(1, s))
    /\ nextId = 2
    /\ intents = <<[status |-> "requires_payment_method", amount |-> 10 * CentsPerUnit,
                    pid |-> 1, qty |-> 1, lstock |-> 1, used |-> 0]>>
    /\ inflight = EmptyBag
    /\ last = Resp("none", 0, "")
    /\ started = 0

\* ------------------------------------------------------------- user routes
\* POST /user, up to the answer of findOne({email}).
PostUserFind(user, t, ok) ==
    /\ Accept
    /\ LET token == CreateToken(user, t)
       IN  IF ~ok
           THEN last' = Rejected("postUser") /\ UNCHANGED inflight
           ELSE IF FindUser(user.email) # {}
           THEN /\ last' = [Resp("postUser", 200, "Login success")
                               EXCEPT !.token = <<token>>]
                /\ UNCHANGED inflight
           ELSE /\ inflight' = Add(inflight, [route |-> "postUser", pc |-> "insert",
                                              user |-> user, token |-> token])
                /\ UNCHANGED last
    /\ UNCHANGED <<users, products, nextId, intents, audit>>

\* POST /user, from insertOne(user) to the response.
PostUserInsert(r, ok) ==
    /\ r \in InFlight /\ r.route = "postUser" /\ r.pc = "insert"
    /\ inflight' = Remove(inflight, r)
    /\ IF ~ok
       THEN last' = Rejected("postUser") /\ UNCHANGED users
       ELSE /\ users' = Append(users, r.user)
            /\ last' = [Resp("postUser", 200, "Registration successful")
                           EXCEPT !.token = <<r.token>>]
    /\ UNCHANGED <<products, nextId, intents, started, audit>>

\* GET /user/get/:id
GetUserById(id, ok) ==
    /\ Accept
    /\ last' = IF ~id.wf \/ ~ok THEN Rejected("getUserById")
               ELSE Resp("getUserById", 200,
                         IF id.n \in 1..Len(users) THEN "user" ELSE "null")
    /\ UNCHANGED <<users, products, nextId, intents, inflight, audit>>

\* GET /user/:email
GetUserByEmail(email, ok) ==
    /\ Accept
    /\ last' = IF ~ok THEN Rejected("getUserByEmail")
               ELSE Resp("getUserByEmail", 200,
                         IF FindUser(email) # {} THEN "user" ELSE "null")
    /\ UNCHANGED <<users, products, nextId, intents, inflight, audit>>

\* GET /
Root ==
    /\ Accept
    /\ last' = Resp("root", 200, "Route is working")
    /\ UNCHANGED <<users, products, nextId, intents, inflight, audit>>

\* ---------------------------------------------------------- product routes
\* POST /products, up to the answer of insertOne(newProduct).
PostProductInsert(body, ok) ==
    /\ Accept
    /\ LET newProduct == [name |-> body.name, price |-> body.price,
                          stock |-> ParseInt(body.stock), status |-> NoStatus]
       IN  IF ~ok
           THEN /\ last' = Resp("postProduct", 400, "Failed to add product")
                /\ UNCHANGED <<products, nextId, inflight, audit>>
           ELSE /\ products' = products @@ (nextId :> newProduct)
                /\ audit' = audit @@ (nextId :> Fresh(1, newProduct.stock))
                /\ nextId' = nextId + 1
                /\ inflight' = Add(inflight, [route |-> "postProduct", pc |-> "reload",
                                              id |-> nextId])
                /\ UNCHANGED last
    /\ UNCHANGED <<users, intents>>

\* POST /products, from findOne({_id: insertedId}) to the response.
PostProductReload(r, ok) ==
    /\ r \in InFlight /\ r.route = "postProduct" /\ r.pc = "reload"
    /\ inflight' = Remove(inflight, r)
    /\ last' = IF ~ok THEN Resp("postProduct", 400, "Failed to add product")
               ELSE Resp("postProduct", 201,
                         IF r.id \in DOMAIN products THEN "product" ELSE "null")
    /\ UNCHANGED <<users, products, nextId, intents, started, audit>>

\* GET /products
GetProducts(ok) ==
    /\ Accept
    /\ last' = IF ~ok THEN Resp("getProducts", 500, "Failed to fetch products")
               ELSE Resp("getProducts", 200, "products")
    /\ UNCHANGED <<users, products, nextId, intents, inflight, audit>>

\* GET /products/:id
GetProduct(id, ok) ==
    /\ Accept
    /\ last' = IF ~id.wf \/ ~ok THEN Resp("getProduct", 500, "Failed to fetch product")
               ELSE IF id.n \notin DOMAIN products
               THEN Resp("getProduct", 404, "Product not found")
               ELSE Resp("getProduct", 200, "product")
    /\ UNCHANGED <<users, products, nextId, intents, inflight, audit>>

\* verifyToken answers 401: the handler behind it never runs.
Unauthorized(route) ==
    /\ Accept
    /\ last' = Resp(route, 401, "You are not authorized")
    /\ UNCHANGED <<users, products, nextId, intents, inflight, audit>>

\* The handler of PATCH /products/:id.
PatchProduct(id, body, ok) ==
    /\ Accept
    /\ IF ~id.wf \/ ~ok
       THEN /\ last' = Resp("patchProduct", 400, "Failed to update product")
            /\ UNCHANGED <<products, audit>>
       ELSE IF id.n \notin DOMAIN products
       THEN /\ last' = Resp("patchProduct", 404, "Product not found")
            /\ UNCHANGED <<products, audit>>
       ELSE LET updated == [products[id.n] EXCEPT !.name = body.name,
                                                  !.price = body.price,
                                                  !.stock = ParseInt(body.stock)]
            IN  IF updated = products[id.n]    \* modifiedCount === 0
                THEN /\ last' = Resp("patchProduct", 404, "Product not found")
                     /\ UNCHANGED <<products, audit>>
                ELSE /\ products' = [products EXCEPT ![id.n] = updated]
                     /\ audit' = [audit EXCEPT
                                    ![id.n] = Fresh(audit[id.n].v + 1, updated.stock)]
                     /\ last' = Resp("patchProduct", 200, "updatedProduct")
    /\ UNCHANGED <<users, nextId, intents, inflight>>

\* The handler of DELETE /products/:id.
DeleteProduct(id, ok) ==
    /\ Accept
    /\ IF ~id.wf \/ ~ok
       THEN /\ last' = Resp("deleteProduct", 500, "Failed to delete product")
            /\ UNCHANGED <<products, audit>>
       ELSE IF id.n \notin DOMAIN products     \* deletedCount === 0
       THEN /\ last' = Resp("deleteProduct", 404, "Product not found")
            /\ UNCHANGED <<products, audit>>
       ELSE /\ products' = [p \in DOMAIN products \ {id.n} |-> products[p]]
            /\ audit' = [p \in DOMAIN audit \ {id.n} |-> audit[p]]
            /\ last' = Resp("deleteProduct", 200, "Product deleted")
    /\ UNCHANGED <<users, nextId, intents, inflight>>

ProductBodies == [name : Names, price : Prices, stock : StockInputs]

\* app.patch('/products/:id', verifyToken, handler)
PatchRequest(hdr, t) ==
    IF VerifyToken(hdr, t)
    THEN \E id \in IdParams(nextId), body \in ProductBodies, ok \in BOOLEAN :
            PatchProduct(id, body, ok)
    ELSE Unauthorized("patchProduct")

\* app.delete('/products/:id', verifyToken, handler)
DeleteRequest(hdr, t) ==
    IF VerifyToken(hdr, t)
    THEN \E id \in IdParams(nextId), ok \in BOOLEAN : DeleteProduct(id, ok)
    ELSE Unauthorized("deleteProduct")

\* ----------------------------------------------------------------- checkout
\* The stock check as it would be if it only refused a product out of stock.
StockBelowOne(product, quantity) == product.stock < 1

\* if (product.stock < quantity)
InsufficientStock(product, quantity) == product.stock < quantity

\* The status test as it would be if it only refused a canceled intent.
NotCanceled(paymentIntent) == paymentIntent.status # "canceled"

\* if (paymentIntent.status === 'succeeded')
PaymentSucceeded(paymentIntent) == paymentIntent.status = "succeeded"

\* The stock written as it would be with an atomic decrement of the stored stock.
AtomicDecrement(r) == products[r.id].stock - r.qty

\* The stock written as it would be if an intent were honoured only once.
OncePerIntent(r) ==
    IF intents[r.intent].used > 0 THEN r.product.stock ELSE r.product.stock - r.qty

\* const updatedStock = product.stock - quantity, on the handler's locals r
UpdatedStock(r) == r.product.stock - r.qty

\* The status as it would be if any stock <= 0 counted as out of stock.
StatusOfNotPositive(updatedStock) ==
    IF updatedStock <= 0 THEN "Out of Stock" ELSE "In Stock"

\* const status = updatedStock === 0 ? 'Out of Stock' : 'In Stock'
StatusOf(updatedStock) == IF updatedStock = 0 THEN "Out of Stock" ELSE "In Stock"

\* POST /products/:id/purchase, up to the answer of findOne and the stock check.
PurchaseFind(id, quantity, ok) ==
    /\ Accept
    /\ IF ~id.wf \/ ~ok
       THEN /\ last' = Resp("purchase", 500, "Failed to create payment intent")
            /\ UNCHANGED inflight
       ELSE IF id.n \notin DOMAIN products
       THEN /\ last' = Resp("purchase", 404, "Product not found")
            /\ UNCHANGED inflight
       ELSE IF InsufficientStock(products[id.n], quantity)
       THEN /\ last' = Resp("purchase", 400, "Not enough stock available")
            /\ UNCHANGED inflight
       ELSE /\ inflight' = Add(inflight, [route |-> "purchase", pc |-> "create",
                                          id |-> id.n, qty |-> quantity,
                                          product |-> products[id.n]])
            /\ UNCHANGED last
    /\ UNCHANGED <<users, products, nextId, intents, audit>>

\* The same step as it would be if the purchase reserved the stock it asks for.
PurchaseCreateReserving(r, ok) ==
    /\ r \in InFlight /\ r.route = "purchase" /\ r.pc = "create"
    /\ inflight' = Remove(inflight, r)
    /\ IF ~ok
       THEN /\ last' = Resp("purchase", 500, "Failed to create payment intent")
            /\ UNCHANGED <<intents, products>>
       ELSE /\ intents' = Append(intents,
                             [status |-> "requires_payment_method",
                              amount |-> r.product.price * r.qty * CentsPerUnit,
                              pid |-> r.id, qty |-> r.qty, lstock |-> r.product.stock,
                              used |-> 0])
            /\ products' = IF r.id \in DOMAIN products
                           THEN [products EXCEPT ![r.id].stock = @ - r.qty]
                           ELSE products
            /\ last' = [Resp("purchase", 200, "clientSecret")
                           EXCEPT !.secret = Len(intents) + 1]
    /\ UNCHANGED <<users, nextId, started, audit>>

\* POST /products/:id/purchase, from stripe.paymentIntents.create to the response.
PurchaseCreate(r, ok) ==
    /\ r \in InFlight /\ r.route = "purchase" /\ r.pc = "create"
    /\ inflight' = Remove(inflight, r)
    /\ LET amount == r.product.price * r.qty * CentsPerUnit
       IN  IF ~ok
           THEN /\ last' = Resp("purchase", 500, "Failed to create payment intent")
                /\ UNCHANGED intents
           ELSE /\ intents' = Append(intents,
                                 [status |-> "requires_payment_method", amount |-> amount,
                                  pid |-> r.id, qty |-> r.qty, lstock |-> r.product.stock,
                                  used |-> 0])
                /\ last' = [Resp("purchase", 200, "clientSecret")
                               EXCEPT !.secret = Len(intents) + 1]
    /\ UNCHANGED <<users, products, nextId, started, audit>>

\* POST /products/:id/confirm-payment, up to the answer of findOne.
ConfirmFind(id, paymentIntentId, quantity, ok) ==
    /\ Accept
    /\ IF ~id.wf \/ ~ok
       THEN /\ last' = Resp("confirm", 500, "Failed to confirm payment")
            /\ UNCHANGED inflight
       ELSE IF id.n \notin DOMAIN products
       THEN /\ last' = Resp("confirm", 404, "Product not found")
            /\ UNCHANGED inflight
       ELSE /\ inflight' = Add(inflight, [route |-> "confirm", pc |-> "retrieve",
                                          id |-> id.n, qty |-> quantity,
                                          intent |-> paymentIntentId,
                                          product |-> products[id.n],
                                          lv |-> audit[id.n].v,
                                          status |-> ""])
            /\ UNCHANGED last
    /\ UNCHANGED <<users, products, nextId, intents, audit>>

\* confirm-payment, from stripe.paymentIntents.retrieve to the status test.
ConfirmRetrieve(r, ok) ==
    /\ r \in InFlight /\ r.route = "confirm" /\ r.pc = "retrieve"
    /\ IF ~ok \/ r.intent \notin 1..Len(intents)
       THEN /\ last' = Resp("confirm", 500, "Failed to confirm payment")
            /\ inflight' = Remove(inflight, r)
       ELSE IF PaymentSucceeded(intents[r.intent])
       THEN /\ inflight' = Add(Remove(inflight, r),
                               [r EXCEPT !.pc = "update",
                                         !.status = intents[r.intent].status])
            /\ UNCHANGED last
       ELSE /\ last' = Resp("confirm", 400, "Payment not successful")
            /\ inflight' = Remove(inflight, r)
    /\ UNCHANGED <<users, products, nextId, intents, started, audit>>

\* confirm-payment, from updateOne($set stock, status) to the modifiedCount test.
ConfirmUpdate(r, ok) ==
    /\ r \in InFlight /\ r.route = "confirm" /\ r.pc = "update"
    /\ LET updatedStock == UpdatedStock(r)
           status == StatusOf(updatedStock)
       IN  IF ~ok
           THEN /\ last' = Resp("confirm", 500, "Failed to confirm payment")
                /\ inflight' = Remove(inflight, r)
                /\ UNCHANGED <<products, audit, intents>>
           ELSE IF r.id \notin DOMAIN products     \* modifiedCount === 0
           THEN /\ last' = Resp("confirm", 400, "Failed to update product stock")
                /\ inflight' = Remove(inflight, r)
                /\ UNCHANGED <<products, audit, intents>>
           ELSE LET doc == [products[r.id] EXCEPT !.stock = updatedStock,
                                                  !.status = status]
                    modified == doc # products[r.id]
                    a == audit[r.id]
                IN  /\ products' = [products EXCEPT ![r.id] = doc]
                    /\ audit' = [audit EXCEPT ![r.id] =
                           [v |-> IF modified THEN a.v + 1 ELSE a.v,
                            lv |-> r.lv, ls |-> r.product.stock, q |-> r.qty,
                            pq |-> IF a.lv = r.lv THEN a.q ELSE 0,
                            base |-> a.base, dec |-> a.dec + r.qty,
                            clean |-> a.clean /\ a.v = r.lv]]
                    /\ intents' = [intents EXCEPT ![r.intent].used = @ + 1]
                    /\ IF modified
                       THEN /\ inflight' = Add(Remove(inflight, r),
                                               [r EXCEPT !.pc = "reload"])
                            /\ UNCHANGED last
                       ELSE /\ last' = Resp("confirm", 400,
                                            "Failed to update product stock")
                            /\ inflight' = Remove(inflight, r)
    /\ UNCHANGED <<users, nextId, started>>

\* confirm-payment, from the second findOne to the response.
ConfirmReload(r, ok) ==
    /\ r \in InFlight /\ r.route = "confirm" /\ r.pc = "reload"
    /\ inflight' = Remove(inflight, r)
    /\ last' = IF ~ok THEN Resp("confirm", 500, "Failed to confirm payment")
               ELSE Resp("confirm", 200, "Payment succeeded")
    /\ UNCHANGED <<users, products, nextId, intents, started, audit>>

\* -------------------------------------------------------------- environment
\* The customer pays: the gateway moves the intent to succeeded.
Pay(k) ==
    /\ k \in 1..Len(intents)
    /\ intents[k].status = "requires_payment_method"
    /\ intents' = [intents EXCEPT ![k].status = "succeeded"]
    /\ UNCHANGED <<users, products, nextId, inflight, last, started, audit>>

\* The intent is given up.
Cancel(k) ==
    /\ k \in 1..Len(intents)
    /\ intents[k].status = "requires_payment_method"
    /\ intents' = [intents EXCEPT ![k].status = "canceled"]
    /\ UNCHANGED <<users, products, nextId, inflight, last, started, audit>>

\* ------------------------------------------------------------ specification
UserBodies == [email : Emails, name : Names]

Next ==
    \/ \E user \in UserBodies, t \in Times, ok \in BOOLEAN : PostUserFind(user, t, ok)
    \/ \E r \in InFlight, ok \in BOOLEAN : PostUserInsert(r, ok)
    \/ \E id \in IdParams(MaxReq), ok \in BOOLEAN : GetUserById(id, ok)
    \/ \E email \in Emails, ok \in BOOLEAN : GetUserByEmail(email, ok)
    \/ Root
    \/ \E body \in ProductBodies, ok \in BOOLEAN : PostProductInsert(body, ok)
    \/ \E r \in InFlight, ok \in BOOLEAN : PostProductReload(r, ok)
    \/ \E ok \in BOOLEAN : GetProducts(ok)
    \/ \E id \in IdParams(nextId), ok \in BOOLEAN : GetProduct(id, ok)
    \/ \E hdr \in Headers, t \in Times : PatchRequest(hdr, t)
    \/ \E hdr \in Headers, t \in Times : DeleteRequest(hdr, t)
    \/ \E id \in IdParams(nextId), q \in Quantities, ok \in BOOLEAN :
          PurchaseFind(id, q, ok)
    \/ \E r \in InFlight, ok \in BOOLEAN : PurchaseCreate(r, ok)
    \/ \E id \in IdParams(nextId), k \in 1..(Len(intents) + 1), q \in Quantities,
          ok \in BOOLEAN : ConfirmFind(id, k, q, ok)
    \/ \E r \in InFlight, ok \in BOOLEAN : ConfirmRetrieve(r, ok)
    \/ \E r \in InFlight, ok \in BOOLEAN : ConfirmUpdate(r, ok)
    \/ \E r \in InFlight, ok \in BOOLEAN : ConfirmReload(r, ok)
    \/ \E k \in 1..Len(intents) : Pay(k)
    \/ \E k \in 1..Len(intents) : Cancel(k)

Spec == Init /\ [][Next]_vars

\* ------------------------------------------------------------------ claims

\* C1: when confirm-payment, having seen a succeeded intent, applies its update
\* to a product that exists, the stored stock becomes the stock the request
\* loaded minus quantity (which is the stored stock minus quantity when nothing
\* wrote the product since the load), and the stored status becomes
\* "Out of Stock" if and only if that stock is 0, "In Stock" otherwise.
C1_ConfirmDecrements ==
    [][\A r \in InFlight :
         (ConfirmUpdate(r, TRUE) /\ r.id \in DOMAIN products) =>
            /\ r.status = "succeeded"
            /\ products'[r.id].stock = r.product.stock - r.qty
            /\ (audit[r.id].v = r.lv =>
                  products'[r.id].stock = products[r.id].stock - r.qty)
            /\ (products'[r.id].status = "Out of Stock") = (products'[r.id].stock = 0)
            /\ (products'[r.id].status = "In Stock") = (products'[r.id].stock # 0)]_vars

\* A confirmation of quantity 1 answered "Payment succeeded" has taken the last
\* unit of a product: stock 0, "Out of Stock".
C1_Witness ==
    /\ last = Resp("confirm", 200, "Payment succeeded")
    /\ \E p \in DOMAIN products :
         /\ audit[p].lv > 0 /\ audit[p].ls = 1 /\ audit[p].q = 1
         /\ products[p].stock = 0 /\ products[p].status = "Out of Stock"

\* C2: with no request in flight, every stored product has stock >= 0.
C2_StockNonNegative ==
    inflight = EmptyBag => \A p \in DOMAIN products : products[p].stock >= 0

\* C3: no step of a purchase request changes the product collection; a purchase
\* that finds its product with stock >= quantity goes on to the gateway, and
\* when the gateway returns the intent the response is 200 with the secret of
\* the intent just created.
C3_PurchaseFrame ==
    /\ [][products' # products =>
            ~(\/ \E id \in IdParams(nextId), q \in Quantities, ok \in BOOLEAN :
                    PurchaseFind(id, q, ok)
              \/ \E r \in InFlight, ok \in BOOLEAN : PurchaseCreate(r, ok))]_vars
    /\ [][\A id \in IdParams(nextId), q \in Quantities :
            (/\ id.wf /\ id.n \in DOMAIN products
             /\ products[id.n].stock >= q
             /\ PurchaseFind(id, q, TRUE))
            => /\ last' = last
               /\ \E r \in BagToSet(inflight') :
                    /\ r.route = "purchase" /\ r.id = id.n /\ r.qty = q
                    /\ CopiesIn(r, inflight') = CopiesIn(r, inflight) + 1]_vars
    /\ [][\A r \in InFlight :
            PurchaseCreate(r, TRUE)
            => /\ Len(intents') = Len(intents) + 1
               /\ last'.route = "purchase" /\ last'.code = 200
               /\ last'.secret = Len(intents')
               /\ intents'[last'.secret].amount = r.product.price * r.qty * CentsPerUnit
               /\ r.id \in DOMAIN products => products'[r.id] = products[r.id]]_vars

\* A purchase of a product in stock was answered with a client secret and the
\* product is stored as the request loaded it.
C3_Witness ==
    /\ last.route = "purchase" /\ last.code = 200
    /\ last.secret \in 1..Len(intents)
    /\ LET i == intents[last.secret]
       IN  /\ i.pid \in DOMAIN products
           /\ i.lstock >= i.qty
           /\ products[i.pid].stock = i.lstock

\* C4: a purchase that finds its product with stock < quantity is answered 400
\* "Not enough stock available" in that step, without a gateway call; no
\* request waiting on the gateway, and no intent a request created, has
\* loaded stock < quantity.
C4_InsufficientStock ==
    /\ [][\A id \in IdParams(nextId), q \in Quantities :
            (/\ id.wf /\ id.n \in DOMAIN products
             /\ products[id.n].stock < q
             /\ PurchaseFind(id, q, TRUE))
            => /\ last' = Resp("purchase", 400, "Not enough stock available")
               /\ intents' = intents
               /\ inflight' = inflight]_vars
    /\ [](\A r \in InFlight : r.route = "purchase" => r.product.stock >= r.qty)
    /\ [](\A k \in 1..Len(intents) : intents[k].lstock >= intents[k].qty)

\* A purchase was refused for lack of stock and the gateway holds no intent
\* beyond the one it started with.
C4_Witness ==
    /\ last = Resp("purchase", 400, "Not enough stock available")
    /\ Len(intents) = 1
    /\ inflight = EmptyBag

\* C5: a confirmation whose retrieved intent is not succeeded is answered 400
\* "Payment not successful" in that step and leaves the products unchanged;
\* every confirmation past the status test has seen a succeeded intent, and a
\* step of a suspended handler that changes the products is the update of such
\* a confirmation.
C5_PaymentNotCompleted ==
    /\ [][\A r \in InFlight :
            (/\ ConfirmRetrieve(r, TRUE)
             /\ r.intent \in 1..Len(intents)
             /\ intents[r.intent].status # "succeeded")
            => /\ last' = Resp("confirm", 400, "Payment not successful")
               /\ products' = products
               /\ CopiesIn(r, inflight') = CopiesIn(r, inflight) - 1
               /\ BagCardinality(inflight') = BagCardinality(inflight) - 1]_vars
    /\ [](\A r \in InFlight :
            (r.route = "confirm" /\ r.pc \in {"update", "reload"})
            => (r.status = "succeeded" /\ intents[r.intent].status = "succeeded"))
    /\ [][(products' # products /\ started' = started) =>
            \E r \in InFlight :
               /\ r.route = "confirm" /\ r.pc = "update" /\ r.status = "succeeded"
               /\ intents[r.intent].status = "succeeded"
               /\ ConfirmUpdate(r, TRUE)]_vars

\* A confirmation was refused for an unpaid intent while the product keeps the
\* stock it was created with.
C5_Witness ==
    /\ last = Resp("confirm", 400, "Payment not successful")
    /\ \A k \in 1..Len(intents) : intents[k].status # "succeeded"
    /\ \A p \in DOMAIN products :
         products[p].stock = audit[p].base /\ audit[p].dec = 0

\* A request's token passes: the header is there and holds a token that parses,
\* is signed with the server's key and has not expired.
TokenPasses(hdr, t) ==
    /\ hdr.set
    /\ Len(hdr.parts) >= 1
    /\ hdr.parts[1].wf
    /\ hdr.parts[1].key = secretKey
    /\ t < hdr.parts[1].exp

\* C6: a PATCH or DELETE whose token is missing, malformed, expired or wrongly
\* signed is answered 401 and leaves the product collection unchanged; put the
\* other way round, a step that answers a PATCH or DELETE in any other way, or
\* changes the products, is the step of a request whose token passes.
C6_TokenGate ==
    [][(/\ started' # started
        /\ \/ /\ last'.route = "patchProduct"
              /\ ~(/\ last' = Resp("patchProduct", 401, "You are not authorized")
                   /\ products' = products)
           \/ /\ last'.route = "deleteProduct"
              /\ ~(/\ last' = Resp("deleteProduct", 401, "You are not authorized")
                   /\ products' = products))
       => \A hdr \in Headers, t \in Times :
             (PatchRequest(hdr, t) \/ DeleteRequest(hdr, t)) => TokenPasses(hdr, t)]_vars

\* An update was refused with 401.
C6_Witness ==
    /\ last = Resp("patchProduct", 401, "You are not authorized")
    /\ started >= 1

\* C7: userCollection holds at most one record per email.
C7_EmailUnique ==
    \A i, j \in 1..Len(users) : users[i].email = users[j].email => i = j

\* C8: no handler's failure escapes the handler: every request that ended was
\* answered by its handler.
C8_AllCaught == last.msg # "unhandled rejection"

\* C9: when a confirmation writes a product that another confirmation wrote
\* after both had loaded the same version of it (stock s), the stored stock is
\* s minus the later writer's quantity, one of s - q1 and s - q2, and not
\* s - q1 - q2.
C9_LostUpdate ==
    \A p \in DOMAIN products :
        audit[p].pq > 0 =>
            /\ products[p].stock = audit[p].ls - audit[p].q
            /\ products[p].stock \in {audit[p].ls - audit[p].pq, audit[p].ls - audit[p].q}
            /\ products[p].stock # audit[p].ls - audit[p].pq - audit[p].q

\* Two confirmations loaded the same stock, both wrote, both have ended, and the
\* product lost one of the two decrements.
C9_Witness ==
    /\ inflight = EmptyBag
    /\ last = Resp("confirm", 200, "Payment succeeded")
    /\ \E p \in DOMAIN products :
         /\ audit[p].pq > 0 /\ audit[p].pq # audit[p].q
         /\ products[p].stock >= 0
         /\ audit[p].dec = audit[p].pq + audit[p].q
         /\ products[p].stock = audit[p].base - audit[p].q

\* C10: as long as every write of a product was made on its current version
\* (no write in between a confirmation's load and its update), the stored
\* stock is the stock of the last create or update minus the sum of the
\* quantities of all confirmations applied since, whatever intent each one
\* named: an intent made for another product or quantity, or one already used.
C10_NotIdempotent ==
    \A p \in DOMAIN products :
        audit[p].clean => products[p].stock = audit[p].base - audit[p].dec

\* One succeeded intent, made for quantity 1, was confirmed twice, one call
\* after the other, with quantity 2: the product lost 2 * 2 units.
C10_Witness ==
    \E k \in 1..Len(intents), p \in DOMAIN products :
        /\ intents[k].used = 2
        /\ intents[k].qty = 1
        /\ audit[p].clean /\ audit[p].q = 2 /\ audit[p].dec = 2 * 2
        /\ products[p].stock = audit[p].base - 2 * 2

=============================================================================
